---- MODULE Spec2Model ----
(***************************************************************************)
(* A model of pyriodical's idempotent-execution control loop:              *)
(* PyriodicalBase.main() with the "performed file" (the ledger), the       *)
(* class-wide internet-reachability cache and the platform adapter.        *)
(*                                                                         *)
(* Text is a sequence of one-character strings.  The performed file is the *)
(* sequence of its lines, each without its terminating newline; tokens are *)
(* drawn from strings without line breaks, so print(token, file=fw) adds   *)
(* exactly one line.                                                       *)
(***************************************************************************)
EXTENDS Integers, Sequences, FiniteSets, TLC

\* ------------------------------------------------------------------ bounds

\* perform() is called only while the performed file holds fewer than
\* MaxRecords lines.
MaxRecords == 3

\* The clock is read at most MaxTicks ticks after the start.
MaxTicks == 3

\* ------------------------------------------------------- program constants

\* One tick of the modelled clock, in seconds.
TickSeconds == 30

\* has_internet: "last_checked_internet_minutes < 1", in seconds.
FreshSeconds == 60

\* ------------------------------------------------------------------- text

Whitespace == {" "}

\* The tokens a task's make_unique_token() may return: two plain tokens and
\* one that ends in whitespace.
Tokens == {<<"a">>, <<"b">>, <<"a", " ">>}

\* An optional value: None, or Some(x) with value Val(Some(x)) = x.
None == <<>>
Some(x) == <<x>>
Val(o) == o[1]

\* A local that holds a token before make_unique_token() has returned one.
Unassigned == <<>>

RECURSIVE lstrip(_)
lstrip(s) ==
    IF s # <<>> /\ Head(s) \in Whitespace THEN lstrip(Tail(s)) ELSE s

RECURSIVE rstrip(_)
rstrip(s) ==
    IF s # <<>> /\ s[Len(s)] \in Whitespace
    THEN rstrip(SubSeq(s, 1, Len(s) - 1))
    ELSE s

\* str.strip(): leading and trailing whitespace removed.
strip(s) == rstrip(lstrip(s))

\* ------------------------------------------------------------- platforms

\* PlatformFactory.get_platform() returns MacPlatform on darwin; the platforms
\* of every other host (LinuxPlatform, WindowsPlatform, Platform) support
\* nothing and are one case here.
Platforms == {"Platform", "MacPlatform"}

supported(plat) ==
    IF plat = "MacPlatform"
    THEN {"confirm_user", "open_path", "open_text_file"}
    ELSE {}

supports(plat, method) == method \in supported(plat)

\* ----------------------------------------------------------------- state

Procs == {1, 2}

VARIABLES
    performed_file,             \* the lines of the performed file
    file_exists,                \* os.path.exists(self.performed_file)
    cls_has_internet,           \* PyriodicalBase._has_internet
    cls_last_internet_check_dt, \* PyriodicalBase._last_internet_check_dt
    platform,                   \* self.platform
    confirm_user_str,           \* self.confirm_user_str is not None
    task_needs_internet,        \* what the task's needs_internet() returns
    inv,                        \* per invocation of main(): position, locals, record
    prev,                       \* the invocation of main() that returned last
    succeeded,                  \* the tokens of the invocations whose perform()
                                \* returned true, in the order of their returns
    call                        \* the last direct call of has_internet()

vars == <<performed_file, file_exists, cls_has_internet,
          cls_last_internet_check_dt, platform, confirm_user_str,
          task_needs_internet, inv, prev, succeeded, call>>

config == <<platform, confirm_user_str, task_needs_internet>>
cache == <<cls_has_internet, cls_last_internet_check_dt>>

\* What perform() may raise: an Exception, the user's KeyboardInterrupt, or
\* another BaseException that is no Exception (SystemExit).
Raisable == {"Exception", "KeyboardInterrupt", "SystemExit"}


NoArgs == [edit_perform_file |-> FALSE, status |-> FALSE,
           could_run_now |-> FALSE, force |-> FALSE]

\* An invocation that has not started: no locals, nothing called yet.
Idle == [pc |-> "idle", cl_args |-> NoArgs, token |-> Unassigned,
         start_file |-> <<>>,
         n_token |-> 0, n_should |-> 0, n_confirm |-> 0, n_has_internet |-> 0,
         n_probe |-> 0, n_perform |-> 0, n_recover |-> 0,
         should |-> None, confirmed |-> None, has_internet |-> None,
         success |-> None, raised |-> "none", period_at_end |-> Unassigned,
         out_status |-> None, out_could |-> None,
         exit |-> "none", ret |-> "None"]

NoPrev == [token |-> Unassigned, force |-> FALSE, ret |-> "None"]

\* No direct call of has_internet() yet.
NoCall == [has |-> None, last_dt |-> None, t1 |-> 0, t2 |-> 0, r |-> FALSE,
          returned |-> None, probes |-> 0]

Init ==
    /\ performed_file = <<>>
    /\ file_exists = FALSE
    /\ cls_has_internet = None
    /\ cls_last_internet_check_dt = None
    /\ platform \in Platforms
    /\ confirm_user_str \in BOOLEAN
    /\ task_needs_internet \in BOOLEAN
    /\ inv = [p \in Procs |-> Idle]
    /\ prev = NoPrev
    /\ succeeded = <<>>
    /\ call = NoCall

\* ---------------------------------------------------------------- ledger

\* _get_last_performed: the last line of the file, stripped; None when the
\* file has no line.
get_last_performed(file) ==
    IF file = <<>> THEN None ELSE Some(strip(file[Len(file)]))

\* did_perform_token: some line of the file, stripped, equals the token.
did_perform_token(file, token) ==
    \E i \in 1..Len(file) : strip(file[i]) = token

\* _have_performed: the last performed token equals the token.
have_performed(file, token) == get_last_performed(file) = Some(token)

\* A variant that writes the record twice.
mark_performed_twice(file, token) == Append(Append(file, token), token)

\* A variant that opens the file in write mode and so truncates it.
mark_performed_truncating(file, token) == <<token>>

\* _mark_performed: print(token, file=fw) on the file opened in append mode.
mark_performed(file, token) == Append(file, token)

\* could_run_now
could_run_now(file, token, should_perform) ==
    LET perfd_this_token == did_perform_token(file, token)
    IN  should_perform /\ ~perfd_this_token

\* ---------------------------------------------------- reachability cache

\* can_reach_server('8.8.8.8') or can_reach_server('8.8.4.4')
probe(r1, r2) == r1 \/ r2

\* A variant that reuses any cached result, positive or negative, while it
\* is fresh.
has_internet_sticky(has, last_dt, t1, t2, r) ==
    IF last_dt = None
    THEN <<r, Some(r), Some(t1), 1>>
    ELSE IF (t1 - Val(last_dt)) < FreshSeconds
         THEN <<Val(has), has, last_dt, 0>>
         ELSE <<r, Some(r), Some(t2), 1>>

\* has_internet() with the clock reading t1 on entry, t2 after a probe, and a
\* probe answering r: <<returned value, _has_internet, _last_internet_check_dt,
\* probes issued>>.
has_internet(has, last_dt, t1, t2, r) ==
    IF last_dt = None
    THEN <<r, Some(r), Some(t1), 1>>
    ELSE IF has = Some(TRUE) /\ (t1 - Val(last_dt)) < FreshSeconds
         THEN <<Val(has), has, last_dt, 0>>
         ELSE <<r, Some(r), Some(t2), 1>>

ClockReadings == {k * TickSeconds : k \in 0..MaxTicks}

\* A direct call of the class method has_internet(); the clock readings and
\* the answers of the two servers are inputs, and the clock does not run
\* backwards.
HasInternetCall ==
    /\ \E t1, t2 \in ClockReadings, r1, r2 \in BOOLEAN :
        /\ t1 <= t2
        /\ cls_last_internet_check_dt # None
                => Val(cls_last_internet_check_dt) <= t1
        /\ LET q == has_internet(cls_has_internet, cls_last_internet_check_dt,
                                 t1, t2, probe(r1, r2))
           IN  /\ cls_has_internet' = q[2]
               /\ cls_last_internet_check_dt' = q[3]
               /\ call' = [has |-> cls_has_internet,
                           last_dt |-> cls_last_internet_check_dt,
                           t1 |-> t1, t2 |-> t2, r |-> probe(r1, r2),
                           returned |-> Some(q[1]), probes |-> q[4]]
    /\ UNCHANGED <<performed_file, file_exists, config, inv, prev, succeeded>>

\* ------------------------------------------------- the steps of main()

\* The arguments the parser accepts: -e exists only where the platform
\* supports open_text_file.
ArgSets(plat) ==
    {a \in [edit_perform_file : BOOLEAN, status : BOOLEAN,
            could_run_now : BOOLEAN, force : BOOLEAN] :
        a.edit_perform_file => supports(plat, "open_text_file")}

\* parse_args, _ensure_performed_file_dir, _ensure_performed_file, and the
\* edit short-circuit.
Start(p) ==
    /\ inv[p].pc = "idle"
    /\ \E a \in ArgSets(platform) :
        /\ file_exists' = TRUE
        /\ IF a.edit_perform_file
           THEN inv' = [inv EXCEPT ![p].pc = "done", ![p].cl_args = a,
                                   ![p].start_file = performed_file,
                                   ![p].exit = "edit"]
           ELSE inv' = [inv EXCEPT ![p].pc = "token", ![p].cl_args = a,
                                   ![p].start_file = performed_file]
    /\ UNCHANGED <<performed_file, cache, config, prev, succeeded, call>>

\* A variant that branches on the flags first and leaves the token unmade.
MakeToken_deferred(p) ==
    /\ inv[p].pc = "token"
    /\ \E period \in Tokens :
        inv' = [inv EXCEPT ![p].pc = "flags", ![p].token = period]
    /\ UNCHANGED <<performed_file, file_exists, cache, config, prev, succeeded, call>>

\* token = self.make_unique_token(); the task's current period is an input.
MakeToken(p) ==
    /\ inv[p].pc = "token"
    /\ \E period \in Tokens :
        inv' = [inv EXCEPT ![p].pc = "flags", ![p].token = period,
                           ![p].n_token = @ + 1]
    /\ UNCHANGED <<performed_file, file_exists, cache, config, prev, succeeded, call>>

\* A variant that honours only the status flag.
short_circuit_status_only(cl_args) ==
    IF cl_args.status THEN "status" ELSE "run"

\* The informational short-circuits after the token is made: status first,
\* then could-run-now; "run" when neither flag is given.
short_circuit(cl_args) ==
    IF cl_args.status THEN "status"
    ELSE IF cl_args.could_run_now THEN "could_run_now"
    ELSE "run"

\* _get_status: the fields of the status text.  should_perform_now() is
\* called twice, once directly (s1) and once through could_run_now (s2).
get_status(file, token, s1, s2) ==
    [last_token |-> get_last_performed(file),
     perfd_this_token |-> did_perform_token(file, token),
     should_perform |-> s1,
     cld_run_now |-> could_run_now(file, token, s2)]

\* print(self._get_status(token)) or print('could run now: ...'), then return.
\* Both only read; the answers of should_perform_now() are inputs.
Flags(p) ==
    /\ inv[p].pc = "flags"
    /\ LET sc == short_circuit(inv[p].cl_args)
       IN  IF sc = "status"
           THEN \E s1, s2 \in BOOLEAN :
                inv' = [inv EXCEPT ![p].pc = "done", ![p].exit = "status",
                            ![p].out_status =
                                Some(get_status(performed_file, inv[p].token,
                                                s1, s2)),
                            ![p].n_should = @ + 2]
           ELSE IF sc = "could_run_now"
           THEN \E s \in BOOLEAN :
                inv' = [inv EXCEPT ![p].pc = "done",
                            ![p].exit = "could_run_now",
                            ![p].out_could =
                                Some([should_perform |-> s,
                                      cld_run_now |->
                                          could_run_now(performed_file,
                                                        inv[p].token, s)]),
                            ![p].n_should = @ + 1]
           ELSE inv' = [inv EXCEPT ![p].pc = "should"]
    /\ UNCHANGED <<performed_file, file_exists, cache, config, prev, succeeded, call>>

\* A variant in which the force option also passes the should-perform-now
\* check.
ShouldPerform_forced(p) ==
    /\ inv[p].pc = "should"
    /\ \E should_now \in BOOLEAN :
        IF ~should_now /\ ~inv[p].cl_args.force
        THEN inv' = [inv EXCEPT ![p].pc = "done", ![p].exit = "should_not",
                                ![p].should = Some(should_now),
                                ![p].n_should = @ + 1]
        ELSE inv' = [inv EXCEPT ![p].pc = "performed",
                                ![p].should = Some(should_now),
                                ![p].n_should = @ + 1]
    /\ UNCHANGED <<performed_file, file_exists, cache, config, prev, succeeded, call>>

\* if not self.should_perform_now(): return.  The task's answer is an input.
ShouldPerform(p) ==
    /\ inv[p].pc = "should"
    /\ \E should_now \in BOOLEAN :
        IF ~should_now
        THEN inv' = [inv EXCEPT ![p].pc = "done", ![p].exit = "should_not",
                                ![p].should = Some(should_now),
                                ![p].n_should = @ + 1]
        ELSE inv' = [inv EXCEPT ![p].pc = "performed",
                                ![p].should = Some(should_now),
                                ![p].n_should = @ + 1]
    /\ UNCHANGED <<performed_file, file_exists, cache, config, prev, succeeded, call>>

\* A variant that ignores the force option.
skip_already_unforced(file, token, force) == have_performed(file, token)

\* self._have_performed(token) and not cl_args.force
skip_already(file, token, force) == have_performed(file, token) /\ ~force

HavePerformed(p) ==
    /\ inv[p].pc = "performed"
    /\ IF skip_already(performed_file, inv[p].token, inv[p].cl_args.force)
       THEN inv' = [inv EXCEPT ![p].pc = "done", ![p].exit = "already"]
       ELSE inv' = [inv EXCEPT ![p].pc = "confirm"]
    /\ UNCHANGED <<performed_file, file_exists, cache, config, prev, succeeded, call>>

\* A variant that asks whenever a confirmation string is set.
asks_user_unsupported(confirm_str, plat) == confirm_str

\* The user is asked only when a confirmation string is set and the platform
\* supports confirm_user ("and" short-circuits).
asks_user(confirm_str, plat) == confirm_str /\ supports(plat, "confirm_user")

\* A variant that ignores the user's answer.
declined_never(answer) == FALSE

\* not self.platform.confirm_user(self.confirm_user_str)
declined(answer) == ~answer

\* The confirmation step; the user's answer is an input.
Confirm(p) ==
    /\ inv[p].pc = "confirm"
    /\ IF asks_user(confirm_user_str, platform)
       THEN \E answer \in BOOLEAN :
            IF declined(answer)
            THEN inv' = [inv EXCEPT ![p].pc = "done", ![p].exit = "declined",
                                    ![p].confirmed = Some(answer),
                                    ![p].n_confirm = @ + 1]
            ELSE inv' = [inv EXCEPT ![p].pc = "internet",
                                    ![p].confirmed = Some(answer),
                                    ![p].n_confirm = @ + 1]
       ELSE inv' = [inv EXCEPT ![p].pc = "internet"]
    /\ UNCHANGED <<performed_file, file_exists, cache, config, prev, succeeded, call>>

\* A variant without the network gate.
no_internet_ignored(needs, has) == FALSE

\* if needs_internet and not has_internet
no_internet(needs, has) == needs /\ ~has

\* A variant that queries has_internet() whether or not the task needs the
\* network.
Internet_always(p) ==
    /\ inv[p].pc = "internet"
    /\ \E t1, t2 \in ClockReadings, r1, r2 \in BOOLEAN :
        /\ t1 <= t2
        /\ cls_last_internet_check_dt # None
                => Val(cls_last_internet_check_dt) <= t1
        /\ LET q == has_internet(cls_has_internet,
                                 cls_last_internet_check_dt,
                                 t1, t2, probe(r1, r2))
           IN  /\ cls_has_internet' = q[2]
               /\ cls_last_internet_check_dt' = q[3]
               /\ IF no_internet(task_needs_internet, q[1])
                  THEN inv' = [inv EXCEPT ![p].pc = "done",
                                   ![p].exit = "no_internet",
                                   ![p].ret = "1",
                                   ![p].has_internet = Some(q[1]),
                                   ![p].n_has_internet = @ + 1,
                                   ![p].n_probe = @ + q[4]]
                  ELSE inv' = [inv EXCEPT ![p].pc = "perform",
                                   ![p].has_internet = Some(q[1]),
                                   ![p].n_has_internet = @ + 1,
                                   ![p].n_probe = @ + q[4]]
    /\ UNCHANGED <<performed_file, file_exists, config, prev, succeeded, call>>

\* needs_internet, has_internet and the network gate; the clock readings and
\* the answers of the two servers are inputs.  The clock does not run
\* backwards: no reading is earlier than the stored time of the last check.
Internet(p) ==
    /\ inv[p].pc = "internet"
    /\ IF task_needs_internet
       THEN \E t1, t2 \in ClockReadings, r1, r2 \in BOOLEAN :
            /\ t1 <= t2
            /\ cls_last_internet_check_dt # None
                    => Val(cls_last_internet_check_dt) <= t1
            /\ LET q == has_internet(cls_has_internet,
                                     cls_last_internet_check_dt,
                                     t1, t2, probe(r1, r2))
               IN  /\ cls_has_internet' = q[2]
                   /\ cls_last_internet_check_dt' = q[3]
                   /\ IF no_internet(task_needs_internet, q[1])
                      THEN inv' = [inv EXCEPT ![p].pc = "done",
                                       ![p].exit = "no_internet",
                                       ![p].ret = "1",
                                       ![p].has_internet = Some(q[1]),
                                       ![p].n_has_internet = @ + 1,
                                       ![p].n_probe = @ + q[4]]
                      ELSE inv' = [inv EXCEPT ![p].pc = "perform",
                                       ![p].has_internet = Some(q[1]),
                                       ![p].n_has_internet = @ + 1,
                                       ![p].n_probe = @ + q[4]]
       ELSE /\ inv' = [inv EXCEPT ![p].pc = "perform"]
            /\ UNCHANGED cache
    /\ UNCHANGED <<performed_file, file_exists, config, prev, succeeded, call>>

\* success = self.perform() is entered (while the file has room for a record).
Perform(p) ==
    /\ inv[p].pc = "perform"
    /\ Len(performed_file) < MaxRecords
    /\ inv' = [inv EXCEPT ![p].pc = "performing", ![p].n_perform = @ + 1]
    /\ UNCHANGED <<performed_file, file_exists, cache, config, prev, succeeded, call>>

\* A variant that makes the token anew when perform() has returned.
token_to_mark_recomputed(token, period) == period

\* The token main() hands to _mark_performed: the local computed at the start,
\* whatever make_unique_token() would return by now.
token_to_mark(token, period) == token

\* A variant that marks the token performed whatever perform() returned.
file_after_always(file, success, token) == mark_performed(file, token)

\* if success: self._mark_performed(token)
file_after(file, success, token) ==
    IF success THEN mark_performed(file, token) ELSE file

\* exit_code = 0 if success else 1
exit_code(success) == IF success THEN "0" ELSE "1"

\* A variant that rewrites the file from the content read when the invocation
\* started, instead of appending to the file as it is now.
PerformReturns_rewrite(p) ==
    /\ inv[p].pc = "performing"
    /\ \E success \in BOOLEAN, period \in Tokens :
        /\ performed_file' =
               file_after(inv[p].start_file, success,
                          token_to_mark(inv[p].token, period))
        /\ succeeded' = IF success THEN Append(succeeded, inv[p].token)
                        ELSE succeeded
        /\ inv' = [inv EXCEPT ![p].pc = "done",
                              ![p].exit = IF success THEN "performed"
                                          ELSE "failed",
                              ![p].success = Some(success),
                              ![p].period_at_end = period,
                              ![p].ret = exit_code(success)]
    /\ UNCHANGED <<file_exists, cache, config, prev, call>>

\* perform() returns: on success the token is marked performed.  What
\* perform() returns and the task's period at that time are inputs.
PerformReturns(p) ==
    /\ inv[p].pc = "performing"
    /\ \E success \in BOOLEAN, period \in Tokens :
        /\ performed_file' =
               file_after(performed_file, success,
                          token_to_mark(inv[p].token, period))
        /\ succeeded' = IF success THEN Append(succeeded, inv[p].token)
                        ELSE succeeded
        /\ inv' = [inv EXCEPT ![p].pc = "done",
                              ![p].exit = IF success THEN "performed"
                                          ELSE "failed",
                              ![p].success = Some(success),
                              ![p].period_at_end = period,
                              ![p].ret = exit_code(success)]
    /\ UNCHANGED <<file_exists, cache, config, prev, call>>

\* A variant whose Exception clause does not re-raise: main() returns None.
except_clauses_swallow(exc) ==
    IF exc = "KeyboardInterrupt" THEN [recovered |-> 0, raises |-> exc]
    ELSE IF exc = "Exception" THEN [recovered |-> 1, raises |-> "None"]
    ELSE [recovered |-> 0, raises |-> exc]

\* A variant with one clause, except BaseException, for everything raised.
except_clauses_catch_all(exc) == [recovered |-> 1, raises |-> exc]

\* The except clauses around perform(): KeyboardInterrupt is re-raised at once;
\* an Exception is handed to recover_from_error and re-raised; any other
\* BaseException matches no clause and propagates.
except_clauses(exc) ==
    IF exc = "KeyboardInterrupt" THEN [recovered |-> 0, raises |-> exc]
    ELSE IF exc = "Exception" THEN [recovered |-> 1, raises |-> exc]
    ELSE [recovered |-> 0, raises |-> exc]

\* perform() raises; recover_from_error, the task's hook, returns normally.
PerformRaises(p) ==
    /\ inv[p].pc = "performing"
    /\ \E exc \in Raisable :
        LET h == except_clauses(exc)
        IN  inv' = [inv EXCEPT ![p].pc = "done",
                               ![p].exit = IF exc = "Exception" THEN "fault"
                                           ELSE "interrupt",
                               ![p].raised = exc,
                               ![p].n_recover = @ + h.recovered,
                               ![p].ret = h.raises]
    /\ UNCHANGED <<performed_file, file_exists, cache, config, prev, succeeded, call>>

\* main() has returned (or raised); the next invocation may start.
Return(p) ==
    /\ inv[p].pc = "done"
    /\ prev' = [token |-> inv[p].token, force |-> inv[p].cl_args.force,
                ret |-> inv[p].ret]
    /\ inv' = [inv EXCEPT ![p] = Idle]
    /\ UNCHANGED <<performed_file, file_exists, cache, config, succeeded, call>>

Main(p) ==
    \/ Start(p)
    \/ MakeToken(p)
    \/ Flags(p)
    \/ ShouldPerform(p)
    \/ HavePerformed(p)
    \/ Confirm(p)
    \/ Internet(p)
    \/ Perform(p)
    \/ PerformReturns(p)
    \/ PerformRaises(p)
    \/ Return(p)

\* One invocation of main() at a time, run to completion.
Next ==
    \/ Main(1)

Spec == Init /\ [][Next]_vars

\* The reachability cache under any sequence of has_internet() calls.
NextCache == HasInternetCall

SpecCache == Init /\ [][NextCache]_vars

\* ------------------------------------------ two invocations at the same time

\* The performed files two simultaneous invocations may find: none yet, or
\* the one record an earlier successful invocation has left.
InitialLedgers == {<<>>} \cup {<<t>> : t \in Tokens}

InitConc ==
    /\ performed_file \in InitialLedgers
    /\ file_exists = (performed_file # <<>>)
    /\ cls_has_internet = None
    /\ cls_last_internet_check_dt = None
    /\ platform \in Platforms
    /\ confirm_user_str \in BOOLEAN
    /\ task_needs_internet \in BOOLEAN
    /\ inv = [p \in Procs |-> Idle]
    /\ prev = NoPrev
    /\ succeeded = performed_file
    /\ call = NoCall

\* Two processes each run main() once; their steps interleave freely.  The
\* performed file is shared; nothing in main() locks it.  A step that appends
\* is one write to a file opened in append mode.
NextConc ==
    \E p \in Procs :
        \/ Start(p)
        \/ MakeToken(p)
        \/ Flags(p)
        \/ ShouldPerform(p)
        \/ HavePerformed(p)
        \/ Confirm(p)
        \/ Internet(p)
        \/ Perform(p)
        \/ PerformReturns(p)
        \/ PerformRaises(p)

SpecConc == InitConc /\ [][NextConc]_vars

\* ============================================================== properties

\* The number of records of the file equal to the token.
Count(file, token) == Cardinality({i \in 1..Len(file) : file[i] = token})

\* A token without surrounding whitespace.
Plain(token) == strip(token) = token

Done(p) == inv[p].pc = "done"

\* A run was asked for: none of -e, -s, -c was given.
RunAsked(p) ==
    /\ ~inv[p].cl_args.edit_perform_file
    /\ ~inv[p].cl_args.status
    /\ ~inv[p].cl_args.could_run_now

\* C1 (as claimed): Idempotence.  When a run without force whose perform()
\* returned true is followed by a run without force with the same token T,
\* the second does not call perform() and the file holds exactly one record
\* equal to T.  Stated for tokens without surrounding whitespace and a second
\* run that passes should_perform_now().
C1_Idempotence ==
    \A p \in Procs :
        ( /\ Done(p) /\ RunAsked(p) /\ ~inv[p].cl_args.force
          /\ Plain(inv[p].token) /\ inv[p].should = Some(TRUE)
          /\ prev.ret = "0" /\ ~prev.force /\ prev.token = inv[p].token )
        => /\ inv[p].n_perform = 0
           /\ Count(performed_file, inv[p].token) = 1

\* C2 (as claimed): the already-performed skip is decided by a full scan.  A
\* run without force whose token T is a record of the file, at any position,
\* does not call perform() and leaves the file unchanged.  Stated for tokens
\* without surrounding whitespace and runs that pass should_perform_now().
C2_FullScanSkip ==
    \A p \in Procs :
        ( /\ Done(p) /\ RunAsked(p) /\ ~inv[p].cl_args.force
          /\ Plain(inv[p].token) /\ inv[p].should = Some(TRUE)
          /\ Count(inv[p].start_file, inv[p].token) >= 1 )
        => /\ inv[p].n_perform = 0
           /\ performed_file = inv[p].start_file

\* The file records the token when a forced run starts.
ForcedOnRecorded(p) ==
    /\ Done(p) /\ RunAsked(p) /\ inv[p].cl_args.force
    /\ Count(inv[p].start_file, inv[p].token) >= 1

\* perform() was called once and, when it returned true, the file gained
\* exactly one record equal to the token.
ForcedEffect(p) ==
    /\ inv[p].n_perform = 1
    /\ inv[p].success = Some(TRUE)
         => Count(performed_file, inv[p].token)
              = Count(inv[p].start_file, inv[p].token) + 1

\* C3 (as claimed): Force override.  A forced run whose token is already
\* recorded calls perform() regardless, and a second record is appended when
\* perform() returns true.
C3_ForceAlwaysPerforms ==
    \A p \in Procs : ForcedOnRecorded(p) => ForcedEffect(p)

\* C3 (amended): Force override.  A forced run whose token is already
\* recorded, for which should_perform_now() is true, the user did not decline
\* and the network gate passed, calls perform(), and a second record is
\* appended when perform() returns true.
C3_ForceOverride ==
    \A p \in Procs :
        ( /\ ForcedOnRecorded(p)
          /\ inv[p].should = Some(TRUE)
          /\ inv[p].confirmed # Some(FALSE)
          /\ inv[p].has_internet # Some(FALSE) )
        => ForcedEffect(p)

C3_Witness ==
    \E p \in Procs :
        /\ ForcedOnRecorded(p)
        /\ inv[p].success = Some(TRUE)
        /\ Count(performed_file, inv[p].token) = 2

\* The invocation met one of the four skip conditions.
Skipped(p) ==
    \/ inv[p].should = Some(FALSE)
    \/ /\ inv[p].should = Some(TRUE)
       /\ have_performed(inv[p].start_file, inv[p].token)
       /\ ~inv[p].cl_args.force
    \/ inv[p].confirmed = Some(FALSE)
    \/ inv[p].has_internet = Some(FALSE)

\* C4: every skip outcome (should_perform_now() false, already performed
\* without force, confirmation declined, network required but unreachable)
\* returns without calling perform() and with the file as it was at the start.
C4_SkipLeavesLedger ==
    \A p \in Procs :
        (Done(p) /\ Skipped(p))
        => /\ inv[p].n_perform = 0
           /\ performed_file = inv[p].start_file

C4_Witness ==
    \E p \in Procs :
        /\ Done(p) /\ inv[p].confirmed = Some(FALSE)
        /\ inv[p].start_file # <<>>
        /\ ~have_performed(inv[p].start_file, inv[p].token)

\* C5: when perform() returns true, exactly one record is appended, it is the
\* last record and equals the token made at the start of the invocation, and
\* the invocation returns 0.
C5_SuccessAppendsToken ==
    \A p \in Procs :
        (Done(p) /\ inv[p].success = Some(TRUE))
        => /\ performed_file = Append(inv[p].start_file, inv[p].token)
           /\ inv[p].ret = "0"

\* perform() returned true after the task's period had changed.
C5_Witness ==
    \E p \in Procs :
        /\ Done(p) /\ inv[p].success = Some(TRUE)
        /\ inv[p].period_at_end # inv[p].token
        /\ inv[p].start_file # <<>>

\* C6: when perform() returns false the file is left unchanged and the
\* invocation returns 1.
C6_FailureLeavesLedger ==
    \A p \in Procs :
        (Done(p) /\ inv[p].success = Some(FALSE))
        => /\ performed_file = inv[p].start_file
           /\ inv[p].ret = "1"

C6_Witness ==
    \E p \in Procs :
        /\ Done(p) /\ inv[p].success = Some(FALSE)
        /\ inv[p].start_file # <<>>

C8_CancellationPropagates ==
    \A p \in Procs :
        (Done(p) /\ inv[p].raised = "KeyboardInterrupt")
        => /\ inv[p].ret = "KeyboardInterrupt"
           /\ inv[p].n_recover = 0
           /\ performed_file = inv[p].start_file

C8_Witness ==
    \E p \in Procs :
        /\ Done(p) /\ inv[p].raised = "KeyboardInterrupt"
        /\ inv[p].start_file # <<>>

\* C9: Network gate.  When the task needs the internet and has_internet()
\* answers False, main() does not call perform(), appends nothing and
\* returns 1.
C9_NetworkGate ==
    \A p \in Procs :
        (Done(p) /\ task_needs_internet /\ inv[p].has_internet = Some(FALSE))
        => /\ inv[p].n_perform = 0
           /\ performed_file = inv[p].start_file
           /\ inv[p].ret = "1"

C9_Witness ==
    \E p \in Procs :
        /\ Done(p) /\ task_needs_internet
        /\ inv[p].has_internet = Some(FALSE)
        /\ inv[p].n_probe = 1

\* C10: an invocation with the status flag or the could-run-now flag leaves
\* the file unchanged, never calls perform(), never asks the user and never
\* queries the reachability cache.
C10_StatusObservational ==
    \A p \in Procs :
        ( /\ Done(p) /\ ~inv[p].cl_args.edit_perform_file
          /\ inv[p].cl_args.status \/ inv[p].cl_args.could_run_now )
        => /\ performed_file = inv[p].start_file
           /\ inv[p].n_perform = 0
           /\ inv[p].n_confirm = 0
           /\ inv[p].n_has_internet = 0
           /\ inv[p].n_probe = 0

C10_Witness ==
    \E p \in Procs :
        /\ Done(p) /\ inv[p].cl_args.could_run_now /\ ~inv[p].cl_args.status
        /\ inv[p].n_should = 1
        /\ inv[p].start_file # <<>>


\* The cache as the last has_internet() call found it was set, positive and
\* younger than the freshness window.
CallFoundFresh ==
    /\ call.last_dt # None
    /\ call.has = Some(TRUE)
    /\ call.t1 - Val(call.last_dt) < FreshSeconds

\* C12: has_internet() returns the cached result without a probe exactly when
\* a previous check exists, was positive and is younger than the one-minute
\* window; otherwise it probes once, stores the probe's result with a
\* timestamp read during the call, and returns the result.  A positive result
\* of time t0 is reused at t0+30s and probed again at t0+90s.
C12_CacheFreshness ==
    call.returned # None =>
        /\ IF CallFoundFresh
           THEN /\ call.probes = 0
                /\ call.returned = call.has
                /\ cls_has_internet = call.has
                /\ cls_last_internet_check_dt = call.last_dt
           ELSE /\ call.probes = 1
                /\ call.returned = Some(call.r)
                /\ cls_has_internet = Some(call.r)
                /\ cls_last_internet_check_dt \in {Some(call.t1), Some(call.t2)}
        /\ (call.has = Some(TRUE) /\ call.last_dt # None)
            => /\ call.t1 = Val(call.last_dt) + 30 => call.probes = 0
               /\ call.t1 = Val(call.last_dt) + 90 => call.probes = 1

\* A positive result cached at time 0 is found 90 seconds later and probed
\* again, after it had been reused 30 seconds after the check.
C12_Witness ==
    /\ call.has = Some(TRUE) /\ call.last_dt = Some(0)
    /\ call.t1 = 90 /\ call.probes = 1
    /\ cls_last_internet_check_dt = Some(90)


\* C13 (as claimed): in every invocation of main(), whatever the flags,
\* make_unique_token() is called exactly once.
C13_TokenOnceAlways ==
    \A p \in Procs : Done(p) => inv[p].n_token = 1

\* Nothing but the argument parsing and the edit check has happened.
NothingDecided(p) ==
    /\ inv[p].n_should = 0 /\ inv[p].n_confirm = 0
    /\ inv[p].n_has_internet = 0 /\ inv[p].n_perform = 0
    /\ inv[p].out_status = None /\ inv[p].out_could = None
    /\ inv[p].exit \in {"none", "edit"}

\* C13 (amended): in every invocation of main() without the edit flag,
\* make_unique_token() is called exactly once, before any branching on the
\* status, could-run-now and force flags or on the file; an invocation with
\* the edit flag returns without calling it.
C13_TokenOnce ==
    \A p \in Procs :
        /\ inv[p].n_token = 0 => NothingDecided(p)
        /\ inv[p].pc \notin {"idle", "token"}
            => inv[p].n_token = IF inv[p].cl_args.edit_perform_file
                                THEN 0 ELSE 1

C13_Witness ==
    \E p \in Procs :
        /\ Done(p) /\ inv[p].exit = "already" /\ inv[p].n_token = 1
        /\ inv[p].cl_args.could_run_now = FALSE


\* C14 (as claimed): retry until success.  Of two consecutive runs without
\* force with the same token T that pass should_perform_now(), confirmation
\* and the network gate, the second calls perform() again when the first
\* failed and T is not recorded, and does not call perform() when the first
\* succeeded, T then being recorded.
C14_RetryUntilSuccess ==
    \A p \in Procs :
        ( /\ Done(p) /\ RunAsked(p) /\ ~inv[p].cl_args.force
          /\ inv[p].should = Some(TRUE)
          /\ inv[p].confirmed # Some(FALSE)
          /\ inv[p].has_internet # Some(FALSE)
          /\ prev.token = inv[p].token /\ ~prev.force )
        => /\ (prev.ret = "1" /\ Count(inv[p].start_file, inv[p].token) = 0)
                => inv[p].n_perform = 1
           /\ prev.ret = "0"
                => /\ Count(inv[p].start_file, inv[p].token) >= 1
                   /\ inv[p].n_perform = 0


\* The reference answers of the two ledger queries on a sequence of records.
RefContains(file, token) == \E i \in 1..Len(file) : file[i] = token
RefLast(file) == IF file = <<>> THEN None ELSE Some(file[Len(file)])

\* C16 (as claimed): the ledger queries match their reference definitions.
\* What a status invocation reports as performed-for-this-token is whether
\* the token occurs in the sequence of records, and what it reports as last
\* performed token is the final record, or None for the empty file.
C16_LedgerQueries ==
    \A p \in Procs :
        (Done(p) /\ inv[p].out_status # None)
        => /\ Val(inv[p].out_status).perfd_this_token
                = RefContains(inv[p].start_file, inv[p].token)
           /\ Val(inv[p].out_status).last_token = RefLast(inv[p].start_file)


\* C17 (as claimed): the decision steps run in their fixed order.  The user is
\* asked only where should_perform_now() returned true and the token is not
\* already a record of the file (or force is set); has_internet() is queried
\* only after a confirmation that was not declined; an invocation that exits
\* at an earlier step performs none of the later steps' interactions.  The
\* record test is stated for tokens without surrounding whitespace.
C17_DecisionOrder ==
    \A p \in Procs :
        /\ inv[p].n_confirm >= 1
            => /\ inv[p].should = Some(TRUE)
               /\ \/ inv[p].cl_args.force
                  \/ ~Plain(inv[p].token)
                  \/ ~RefContains(inv[p].start_file, inv[p].token)
        /\ inv[p].n_has_internet >= 1
            => /\ inv[p].should = Some(TRUE)
               /\ inv[p].confirmed # Some(FALSE)
        /\ inv[p].exit \in {"edit", "status", "could_run_now", "should_not",
                            "already"}
            => /\ inv[p].n_confirm = 0 /\ inv[p].n_has_internet = 0
               /\ inv[p].n_perform = 0
        /\ inv[p].exit = "declined"
            => inv[p].n_has_internet = 0 /\ inv[p].n_perform = 0
        /\ inv[p].exit = "no_internet" => inv[p].n_perform = 0


\* C18: confirmation blocks a run only when a confirmation string is set, the
\* platform supports confirm_user and the user declines.  On a platform that
\* does not support it, confirm_user is never called, and a run that passes
\* should_perform_now(), the already-performed check and the network gate
\* calls perform() without asking.
C18_ConfirmationGate ==
    \A p \in Procs :
        /\ inv[p].n_confirm >= 1
            => confirm_user_str /\ supports(platform, "confirm_user")
        /\ inv[p].exit = "declined"
            => /\ confirm_user_str /\ supports(platform, "confirm_user")
               /\ inv[p].confirmed = Some(FALSE)
        /\ ~supports(platform, "confirm_user")
            => /\ inv[p].n_confirm = 0
               /\ ( /\ Done(p) /\ inv[p].should = Some(TRUE)
                    /\ inv[p].cl_args.force
                         \/ ~have_performed(inv[p].start_file, inv[p].token)
                    /\ inv[p].has_internet # Some(FALSE) )
                  => inv[p].n_perform = 1

C18_Witness ==
    \E p \in Procs :
        /\ platform = "Platform" /\ confirm_user_str
        /\ Done(p) /\ inv[p].n_perform = 1 /\ inv[p].n_confirm = 0
        /\ task_needs_internet /\ inv[p].has_internet = Some(TRUE)


\* C19: the would-run boolean printed by could-run-now is true exactly when a
\* normal invocation of main() without force, on the same performed file and
\* with the same token and the same answer of should_perform_now(), gets past
\* the should-perform-now check and the already-performed check.
C19_CouldRunAgrees ==
    \A p \in Procs :
        (Done(p) /\ inv[p].out_could # None)
        => ( Val(inv[p].out_could).cld_run_now
             <=> /\ Val(inv[p].out_could).should_perform
                 /\ ~skip_already(inv[p].start_file, inv[p].token, FALSE) )


\* C20: starting from an empty performed file, the records of the file are
\* the tokens of the invocations whose perform() returned true, one record
\* for each, and an invocation has appended one record when its perform()
\* returned true and none otherwise.
C20_RecordsAreSuccesses ==
    /\ performed_file = succeeded
    /\ \A p \in Procs :
        inv[p].pc # "idle"
        => Len(performed_file) - Len(inv[p].start_file)
              = IF inv[p].success = Some(TRUE) THEN 1 ELSE 0

C20_Witness ==
    /\ Len(performed_file) = 2
    /\ \E p \in Procs :
        /\ Done(p) /\ inv[p].success = Some(TRUE)
        /\ Len(inv[p].start_file) = 1
        /\ performed_file = Append(inv[p].start_file, inv[p].token)
        /\ prev.ret = "1"


\* ------------------------------------------------- concurrent invocations

IsPrefix(s, t) == Len(s) <= Len(t) /\ SubSeq(t, 1, Len(s)) = s

\* C11: in every step of every interleaving of invocations of main(),
\* whatever their flags, outcomes, faults and cancellations, the performed
\* file before the step is a prefix of the performed file after it: no
\* record is edited, reordered or removed.
C11_AppendOnly == [][IsPrefix(performed_file, performed_file')]_vars

\* Both invocations are over, one cancelled or failed by a fault and one
\* forced and successful, and the record found at the start is still first.
C11_Witness ==
    \E p, q \in Procs :
        /\ p # q /\ Done(p) /\ Done(q)
        /\ inv[p].raised # "none"
        /\ inv[q].cl_args.force /\ inv[q].success = Some(TRUE)
        /\ Len(inv[q].start_file) = 1
        /\ performed_file = Append(inv[q].start_file, inv[q].token)

\* The performed file the two invocations found: the shorter of the two
\* files read at their starts.
InitialLedger ==
    IF Len(inv[1].start_file) <= Len(inv[2].start_file)
    THEN inv[1].start_file ELSE inv[2].start_file

Record(p) == IF inv[p].success = Some(TRUE) THEN <<inv[p].token>> ELSE <<>>

\* C15: when two concurrent invocations are both over, the performed file is
\* the file they found followed by one whole record for each invocation whose
\* perform() returned true, in one order or the other; nothing is lost or
\* merged, also when both computed the same unrecorded token and both
\* performed.
C15_DuplicateWorkOnly ==
    (Done(1) /\ Done(2))
    => \/ performed_file = InitialLedger \o Record(1) \o Record(2)
       \/ performed_file = InitialLedger \o Record(2) \o Record(1)

\* Both passed the already-performed check for the same unrecorded token,
\* both performed and both appended it.
C15_Witness ==
    /\ Done(1) /\ Done(2)
    /\ inv[1].token = inv[2].token
    /\ ~inv[1].cl_args.force /\ ~inv[2].cl_args.force
    /\ ~RefContains(InitialLedger, inv[1].token)
    /\ inv[1].start_file = inv[2].start_file
    /\ inv[1].n_perform = 1 /\ inv[2].n_perform = 1
    /\ inv[1].success = Some(TRUE) /\ inv[2].success = Some(TRUE)
    /\ performed_file = InitialLedger \o <<inv[1].token, inv[2].token>>


\* ------------------------------------------------------ force and the cache

\* One of the three conditions force does not bypass was met.
ForcedBlocked(p) ==
    /\ inv[p].cl_args.force
    /\ \/ inv[p].should = Some(FALSE)
       \/ inv[p].confirmed = Some(FALSE)
       \/ task_needs_internet /\ inv[p].has_internet = Some(FALSE)

\* C21: an invocation with force is never stopped by the already-performed
\* skip, and is still stopped, with perform() not called and nothing
\* appended, when should_perform_now() is false, when the user declines a
\* supported confirmation, or when the task needs the network and it is
\* unreachable.
C21_ForceBypassesOnlyAlready ==
    \A p \in Procs :
        /\ inv[p].cl_args.force => inv[p].exit # "already"
        /\ ForcedBlocked(p)
            => /\ Done(p)
               /\ inv[p].exit \in {"should_not", "declined", "no_internet"}
               /\ inv[p].n_perform = 0
               /\ performed_file = inv[p].start_file

\* A forced run on a token the already-performed check would have skipped
\* got to the confirmation and was declined, after an earlier forced run that
\* did not succeed either.
C21_Witness ==
    \E p \in Procs :
        /\ ForcedBlocked(p) /\ inv[p].confirmed = Some(FALSE)
        /\ have_performed(inv[p].start_file, inv[p].token)
        /\ supports(platform, "confirm_user")
        /\ prev.force /\ prev.ret \in {"None", "1"}


\* The exits of main() before the network step.
EarlyExits ==
    {"edit", "status", "could_run_now", "should_not", "already", "declined"}

\* C22: in every step of main() the two cache fields change, and a probe is
\* issued, only in the network step of an invocation whose task needs the
\* network, as part of a has_internet() query; an invocation whose task does
\* not need the network, or which exits at an earlier step, has made no
\* query and issued no probe.
C22_CacheFrame ==
    [][ /\ cache' # cache
            => \E p \in Procs :
                /\ inv[p].pc = "internet" /\ task_needs_internet
                /\ inv'[p].n_has_internet = inv[p].n_has_internet + 1
        /\ \A p \in Procs :
            /\ inv'[p].n_probe > inv[p].n_probe
                => inv[p].pc = "internet" /\ task_needs_internet
            /\ (~task_needs_internet \/ inv'[p].exit \in EarlyExits)
                => /\ inv'[p].n_has_internet = 0 /\ inv'[p].n_probe = 0
                   /\ inv[p].pc # "idle" => cache' = cache ]_vars

\* The cache holds the result of an earlier invocation's query, and the
\* invocation that has just ended, declined by the user, made none.
C22_Witness ==
    \E p \in Procs :
        /\ task_needs_internet /\ cls_has_internet # None
        /\ cls_last_internet_check_dt # None
        /\ Done(p) /\ inv[p].exit = "declined"
        /\ inv[p].n_has_internet = 0 /\ inv[p].n_probe = 0

====
